---- MODULE Spec2Model ----
(***************************************************************************)
(* The India market briefing (src/india_briefing.py) and the portfolio     *)
(* symbol cleanup (src/fix_portfolio.py) as state machines.                *)
(*                                                                         *)
(* Conventions of the model:                                               *)
(*   - a Python str is the sequence of its characters;                     *)
(*   - a float is an exact rational <<n, d>> in lowest terms with d > 0;   *)
(*     <<0, 0>> is NaN (a missing observation). Rounding of IEEE doubles   *)
(*     is not modelled;                                                    *)
(*   - an optional value (None, or "the call raised") is <<>>, and a       *)
(*     present value v is <<v>>;                                           *)
(*   - closing prices are positive.                                        *)
(***************************************************************************)
EXTENDS Integers, Sequences, FiniteSets, TLC

\* ------------------------------------------------------------------ bounds

\* Longest string over SymAlphabet fed to get_correct_symbol.
MaxSymLen == 6
\* Longest closing-price series of the quote specification.
MaxLen == 4
\* Closing prices 1..MaxPrice of the quote specification.
MaxPrice == 2
\* Positions of a portfolio in the performance specification.
MaxPos == 3

\* --------------------------------------------------------------- strings

NS == <<".", "N", "S">>

EndsWith(s, suf) ==
    /\ Len(s) >= Len(suf)
    /\ SubSeq(s, Len(s) - Len(suf) + 1, Len(s)) = suf

\* str.replace(pat, ''): every non-overlapping occurrence, left to right.
RECURSIVE RemoveAll(_, _)
RemoveAll(s, pat) ==
    IF Len(s) < Len(pat) THEN s
    ELSE IF SubSeq(s, 1, Len(pat)) = pat
         THEN RemoveAll(SubSeq(s, Len(pat) + 1, Len(s)), pat)
         ELSE <<Head(s)>> \o RemoveAll(Tail(s), pat)

\* All sequences over S of length 0..n.
RECURSIVE SeqsUpTo(_, _)
SeqsUpTo(S, n) ==
    IF n = 0 THEN {<<>>}
    ELSE LET shorter == SeqsUpTo(S, n - 1)
         IN  shorter \cup {Append(s, x) : s \in {t \in shorter : Len(t) = n - 1}, x \in S}

\* --------------------------------------------------------------- numbers

Abs(x) == IF x < 0 THEN -x ELSE x

RECURSIVE GCD(_, _)
GCD(a, b) == IF b = 0 THEN a ELSE GCD(b, a % b)

NaN == <<0, 0>>

IsNaN(a) == a[2] = 0

\* n/d in lowest terms, d > 0 (d = 0: not a number).
Rat(n, d) ==
    IF d = 0 THEN NaN
    ELSE LET s == IF d < 0 THEN -1 ELSE 1
             g == GCD(Abs(n), Abs(d))
         IN  <<(s * n) \div g, (s * d) \div g>>

Num(i) == <<i, 1>>

RAdd(a, b) == IF IsNaN(a) \/ IsNaN(b) THEN NaN ELSE Rat(a[1] * b[2] + b[1] * a[2], a[2] * b[2])
RSub(a, b) == IF IsNaN(a) \/ IsNaN(b) THEN NaN ELSE Rat(a[1] * b[2] - b[1] * a[2], a[2] * b[2])
RMul(a, b) == IF IsNaN(a) \/ IsNaN(b) THEN NaN ELSE Rat(a[1] * b[1], a[2] * b[2])
RDiv(a, b) == IF IsNaN(a) \/ IsNaN(b) THEN NaN ELSE Rat(a[1] * b[2], a[2] * b[1])
RLess(a, b) == a[1] * b[2] < b[1] * a[2]

\* Series.sum(): missing values are skipped.
RECURSIVE RSum(_)
RSum(s) ==
    IF s = <<>> THEN Num(0)
    ELSE IF IsNaN(Head(s)) THEN RSum(Tail(s))
    ELSE RAdd(Head(s), RSum(Tail(s)))

\* ------------------------------------------------------- state variables

VARIABLES
    \* src/india_briefing.py: the process and one run of run_briefing
    mode,        \* "single" (GITHUB_ACTIONS == "true") or "daemon"
    proc,        \* "main" | "run" | "poll" | "exited" | "crashed"
    exitStatus,  \* <<>> while the process lives, <<code>> once it has ended
    pc,          \* where run_briefing stands
    today,       \* <<>> or <<datetime.now().weekday()>>
    df,          \* <<>> or <<the portfolio table>>
    quotes,      \* <<>> or <<[current_prices, percent_changes]>>
    perf,        \* <<>> or <<the dict calculate_performance returns>>
    news,        \* <<>> or <<the dict fetch_news returns>>
    report,      \* <<>> or <<the text generate_analysis returns>>
    raised,      \* <<>> or <<[stage, msg]>>: the exception the except clause caught
    calls,       \* the external calls of this run, in order
    stages,      \* the stages of this run, in the order they were entered
    alerts,      \* the messages passed to send_error_alert in this run
    posted,      \* the texts send_telegram_report posted in this run
    logged,      \* the failure lines printed in this run
    \* src/fix_portfolio.py: the Symbol column of india_portfolio.csv
    csv,         \* the Symbol column as stored
    csv_log,     \* the stored column: as found, then after each cleanup that saved
    \* one ticker of fetch_market_data
    series,      \* the ticker's column of close_data
    quote        \* <<>> or <<the ticker's quote>>

vars == <<mode, proc, exitStatus, pc, today, df, quotes, perf, news, report,
          raised, calls, stages, alerts, posted, logged, csv, csv_log, series, quote>>

briefingVars == <<mode, proc, exitStatus, pc, today, df, quotes, perf, news, report,
                  raised, calls, stages, alerts, posted, logged>>
cleanupVars == <<csv, csv_log>>
tickerVars == <<series, quote>>

\* ------------------------------------------------- src/fix_portfolio.py

symbol_map ==
       (<<"M","O","T","S","U">> :> <<"M","O","T","H","E","R","S","O","N">>)
    @@ (<<"M","O","T","S","U","M">> :> <<"M","S","U","M","I">>)
    @@ (<<"H","Y","U","M","O","T">> :> <<"H","Y","U","N","D","A","I">>)
    @@ (<<"T","A","T","M","O","T">> :> <<"T","A","T","A","M","O","T","O","R","S">>)
    @@ (<<"B","A","N","B","A","N">> :> <<"B","A","N","D","H","A","N","B","N","K">>)
    @@ (<<"B","A","N","M","A","H">> :> <<"M","A","H","A","B","A","N","K">>)
    @@ (<<"C","A","N","B","A","N">> :> <<"C","A","N","B","K">>)
    @@ (<<"H","D","F","B","A","N">> :> <<"H","D","F","C","B","A","N","K">>)
    @@ (<<"I","D","F","B","A","N">> :> <<"I","D","F","C","F","I","R","S","T","B">>)
    @@ (<<"I","N","D","B","A">> :> <<"I","N","D","U","S","I","N","D","B","K">>)
    @@ (<<"Y","E","S","B","A","N">> :> <<"Y","E","S","B","A","N","K">>)
    @@ (<<"A","M","B","C","E">> :> <<"A","M","B","U","J","A","C","E","M">>)
    @@ (<<"A","A","R","I","N","D">> :> <<"A","A","R","T","I","I","N","D">>)
    @@ (<<"U","N","I","P">> :> <<"U","N","I","P","A","R","T","S">>)
    @@ (<<"P","A","T","E","N">> :> <<"P","A","T","E","L","E","N","G">>)
    @@ (<<"O","N","E","9","7">> :> <<"P","A","Y","T","M">>)
    @@ (<<"I","C","I","N","I","F">> :> <<"I","C","I","C","I","N","I","F","T","Y">>)
    @@ (<<"A","D","A","W","I","L">> :> <<"A","W","L">>)
    @@ (<<"B","H","A","D","Y","N">> :> <<"B","D","L">>)
    @@ (<<"C","O","M","E","N","G">> :> <<"C","U","M","M","I","N","S","I","N","D">>)
    @@ (<<"S","U","Z","E","N","E">> :> <<"S","U","Z","L","O","N">>)
    @@ (<<"B","A","F","I","N","S">> :> <<"B","A","J","F","I","N","A","N","C","E">>)
    @@ (<<"C","D","S","L">> :> <<"C","D","S","L">>)
    @@ (<<"J","I","O","F","I","N">> :> <<"J","I","O","F","I","N">>)
    @@ (<<"L","I","C","H","F">> :> <<"L","I","C","H","S","G","F","I","N">>)
    @@ (<<"M","A","H","F","I","N">> :> <<"M","&","M","F","I","N">>)
    @@ (<<"H","C","L","T","E","C">> :> <<"H","C","L","T","E","C","H">>)
    @@ (<<"T","A","T","T","E","C">> :> <<"T","A","T","A","T","E","C","H">>)
    @@ (<<"A","D","A","P","O","R">> :> <<"A","D","A","N","I","P","O","R","T","S">>)
    @@ (<<"G","M","R","I","N","F">> :> <<"G","M","R","A","I","R","P","O","R","T">>)
    @@ (<<"Z","E","E","E","N","T">> :> <<"Z","E","E","L">>)
    @@ (<<"H","I","N","C","O","P">> :> <<"H","I","N","D","C","O","P","P","E","R">>)
    @@ (<<"A","S","I","P","A","I">> :> <<"A","S","I","A","N","P","A","I","N","T">>)
    @@ (<<"O","R","I","P","A","P">> :> <<"O","R","I","E","N","T","P","P","R">>)
    @@ (<<"B","I","O","C","O","N">> :> <<"B","I","O","C","O","N">>)
    @@ (<<"J","A","I","I","R","R">> :> <<"J","I","S","L","J","A","L","E","Q","S">>)
    @@ (<<"B","H","A","P","E","T">> :> <<"B","P","C","L">>)
    @@ (<<"I","N","D","O","I","L">> :> <<"I","O","C">>)
    @@ (<<"R","E","L","I","N","D">> :> <<"R","E","L","I","A","N","C","E">>)
    @@ (<<"S","C","I">> :> <<"S","C","I">>)
    @@ (<<"S","A","I","L">> :> <<"S","A","I","L">>)
    @@ (<<"T","A","T","S","T","E">> :> <<"T","A","T","A","S","T","E","E","L">>)
    @@ (<<"A","D","A","E","N","T">> :> <<"A","D","A","N","I","E","N","T">>)
    @@ (<<"G","M","R","I","N","F","R","A">> :> <<"G","M","R","A","I","R","P","O","R","T">>)
    @@ (<<"G","M","R","P","O","W","E","R">> :> <<"G","M","R","P","W","R">>)
    @@ (<<"I","C","I","C","I","N","I","F","T","Y">> :> <<"I","C","I","C","I","N","I","F","T","Y">>)
    @@ (<<"R","E","L","P","O","W">> :> <<"R","P","O","W","E","R">>)
    @@ (<<"R","E","L","I","N","F">> :> <<"R","E","L","I","N","F","R","A">>)
    @@ (<<"A","L","O","I","N","D">> :> <<"A","L","O","K","I","N","D","S">>)
    @@ (<<"Z","E","N","T","E","C">> :> <<"Z","E","N","T","E","C">>)
\* A variant that looks the raw symbol up before stripping the suffix.
get_correct_symbol_lookup_first(sym) ==
    IF sym \in DOMAIN symbol_map THEN symbol_map[sym] ELSE RemoveAll(sym, NS)

get_correct_symbol(sym) ==
    LET clean_sym == RemoveAll(sym, NS)
    IN  IF clean_sym \in DOMAIN symbol_map THEN symbol_map[clean_sym] ELSE clean_sym

SymAlphabet == {".", "N", "S", "A"}

Keys == DOMAIN symbol_map
Values == {symbol_map[k] : k \in Keys}

\* The symbols a stored table is drawn from: every short string over
\* SymAlphabet, and every key and value of symbol_map, bare or suffixed.
SymInputs ==
    SeqsUpTo(SymAlphabet, MaxSymLen)
        \cup Keys \cup Values \cup {k \o NS : k \in Keys \cup Values}

\* Cleanups of one table that the cleanup specification follows.
MaxFixes == 2

InitCleanup ==
    /\ csv \in {<<x>> : x \in SymInputs}
    /\ csv_log = <<csv>>

\* fix_portfolio(): read the table, map every symbol, save it back. A failed
\* read or write is caught and printed; the stored table is then unchanged.
fix_portfolio ==
    /\ Len(csv_log) <= MaxFixes
    /\ \E io_ok \in BOOLEAN :
         IF io_ok
         THEN /\ csv' = [i \in DOMAIN csv |-> get_correct_symbol(csv[i])]
              /\ csv_log' = Append(csv_log, csv')
         ELSE UNCHANGED <<csv, csv_log>>
    /\ UNCHANGED <<briefingVars, tickerVars>>

InitCleanupIdle ==
    /\ csv = <<>>
    /\ csv_log = <<>>

\* ------------------------------------------------ src/india_briefing.py

\* load_portfolio's lambda: append .NS unless the symbol already ends with it.
with_suffix(x) == IF EndsWith(x, NS) THEN x ELSE x \o NS

\* load_portfolio(): file is <<>> when pd.read_csv raises, else <<table>>.
load_portfolio(file) ==
    IF file = <<>> THEN <<>>
    ELSE <<[file[1] EXCEPT !.rows =
              [i \in DOMAIN @ |-> [@[i] EXCEPT !.Symbol = with_suffix(@)]]]>>

NSEI == <<"^", "N", "S", "E", "I">>
BSESN == <<"^", "B", "S", "E", "S", "N">>
indices == <<NSEI, BSESN>>

symbols_of(table) == [i \in DOMAIN table.rows |-> table.rows[i].Symbol]
all_tickers(table) == symbols_of(table) \o indices

ZeroQuote == [price |-> Num(0), change |-> Num(0)]

dropna(s) == SelectSeq(s, LAMBDA v : ~IsNaN(v))

\* A variant that keeps the last two rows and only then drops the missing ones.
series_quote_tail_first(ticker_series) ==
    LET n == Len(ticker_series)
        s == dropna(SubSeq(ticker_series, IF n >= 2 THEN n - 1 ELSE 1, n))
    IN  IF Len(s) >= 2
        THEN [price |-> s[Len(s)],
              change |-> RMul(RDiv(RSub(s[Len(s)], s[Len(s) - 1]), s[Len(s) - 1]), Num(100))]
        ELSE IF Len(s) = 1
        THEN [price |-> s[1], change |-> Num(0)]
        ELSE ZeroQuote

\* The body of the per-ticker try block, given the ticker's Close column.
series_quote(ticker_series) ==
    LET s == dropna(ticker_series)
    IN  IF Len(s) >= 2
        THEN LET current_price == s[Len(s)]
                 prev_close == s[Len(s) - 1]
             IN  [price |-> current_price,
                  change |-> RMul(RDiv(RSub(current_price, prev_close), prev_close),
                                  Num(100))]
        ELSE IF Len(s) = 1
        THEN [price |-> s[1], change |-> Num(0)]
        ELSE ZeroQuote

\* One pass of the per-ticker loop: close_data[ticker] is <<>> when the lookup
\* raises (the except branch), else <<the column>>.
ticker_quote(close_data, ticker) ==
    IF close_data[ticker] = <<>> THEN ZeroQuote
    ELSE series_quote(close_data[ticker][1])

\* fetch_market_data(df): download is <<>> when yf.download or data['Close']
\* raises (neither is inside a try), else <<close_data>>. <<>>: it raised.
fetch_market_data(table, download) ==
    IF download = <<>> THEN <<>>
    ELSE LET tickers == {all_tickers(table)[i] : i \in DOMAIN all_tickers(table)}
         IN  <<[current_prices |-> [t \in tickers |-> ticker_quote(download[1], t).price],
                percent_changes |-> [t \in tickers |-> ticker_quote(download[1], t).change]]>>

\* Rows of the top-movers tables.
TopN == 3

\* A variant that keeps the last of the rows that tie (keep='last').
last_largest(rows, idx) ==
    CHOOSE i \in idx : \A j \in idx :
        /\ ~RLess(rows[i].ChangePct, rows[j].ChangePct)
        /\ rows[j].ChangePct = rows[i].ChangePct => i >= j

\* The first row, in table order, among idx with the largest ChangePct.
first_largest(rows, idx) ==
    CHOOSE i \in idx : \A j \in idx :
        /\ ~RLess(rows[i].ChangePct, rows[j].ChangePct)
        /\ rows[j].ChangePct = rows[i].ChangePct => i <= j

first_smallest(rows, idx) ==
    CHOOSE i \in idx : \A j \in idx :
        /\ ~RLess(rows[j].ChangePct, rows[i].ChangePct)
        /\ rows[j].ChangePct = rows[i].ChangePct => i <= j

RECURSIVE nlargest_from(_, _, _)
nlargest_from(n, rows, idx) ==
    IF n = 0 \/ idx = {} THEN <<>>
    ELSE LET i == first_largest(rows, idx)
         IN  <<rows[i]>> \o nlargest_from(n - 1, rows, idx \ {i})

RECURSIVE nsmallest_from(_, _, _)
nsmallest_from(n, rows, idx) ==
    IF n = 0 \/ idx = {} THEN <<>>
    ELSE LET i == first_smallest(rows, idx)
         IN  <<rows[i]>> \o nsmallest_from(n - 1, rows, idx \ {i})

\* DataFrame.nlargest(n, 'ChangePct') / nsmallest, keep='first'.
nlargest(n, rows) == nlargest_from(n, rows, DOMAIN rows)
nsmallest(n, rows) == nsmallest_from(n, rows, DOMAIN rows)

mover(r) == [Symbol |-> r.Symbol, ChangePct |-> r.ChangePct, CurrentPrice |-> r.CurrentPrice]

\* A variant that takes the P&L as the current value times the percent change.
daily_pnl_of_value(current_value, change_pct) ==
    RMul(current_value, RDiv(change_pct, Num(100)))

\* DailyPnL = CurrentValue - CurrentValue / (1 + ChangePct/100)
daily_pnl(current_value, change_pct) ==
    RSub(current_value,
         RDiv(current_value, RAdd(Num(1), RDiv(change_pct, Num(100)))))

\* df['Symbol'].map(d): a symbol that is no key of d maps to NaN.
map_symbol(d, sym) == IF sym \in DOMAIN d THEN d[sym] ELSE NaN

\* calculate_performance(df, current_prices, percent_changes); <<>>: it raised
\* (df['Quantity'] of a table without that column).
calculate_performance(table, current_prices, percent_changes) ==
    IF "Quantity" \notin table.columns THEN <<>>
    ELSE LET full == [i \in DOMAIN table.rows |->
                 LET r == table.rows[i]
                     price == map_symbol(current_prices, r.Symbol)
                     pct == map_symbol(percent_changes, r.Symbol)
                     value == RMul(r.Quantity, price)
                 IN  [Symbol |-> r.Symbol, Quantity |-> r.Quantity,
                      CurrentPrice |-> price, ChangePct |-> pct,
                      CurrentValue |-> value, DailyPnL |-> daily_pnl(value, pct)]]
             gainers == nlargest(TopN, full)
             losers == nsmallest(TopN, full)
         IN  <<[total_value |-> RSum([i \in DOMAIN full |-> full[i].CurrentValue]),
                total_daily_pnl |-> RSum([i \in DOMAIN full |-> full[i].DailyPnL]),
                top_gainers |-> [i \in DOMAIN gainers |-> mover(gainers[i])],
                top_losers |-> [i \in DOMAIN losers |-> mover(losers[i])],
                full_df |-> full]>>

NIFTY50 == <<"N", "I", "F", "T", "Y", " ", "5", "0">>

\* search_queries: "NIFTY 50" and the symbols of the top movers, as a set.
search_queries(p) ==
    {NIFTY50} \cup {p.top_gainers[i].Symbol : i \in DOMAIN p.top_gainers}
              \cup {p.top_losers[i].Symbol : i \in DOMAIN p.top_losers}

\* "- [title](link)" of one feed entry; <<>> when entry.title or entry.link
\* raises AttributeError (the entry lacks it).
entry_item(entry) ==
    IF entry.title = <<>> \/ entry.link = <<>> THEN <<>>
    ELSE <<[title |-> entry.title[1], link |-> entry.link[1]]>>

\* Entries per term.
NewsPerTerm == 2

first_entries(entries) ==
    SubSeq(entries, 1, IF Len(entries) < NewsPerTerm THEN Len(entries) ELSE NewsPerTerm)

\* The inner loop for one term: feed is <<>> when feedparser.parse raises, else
\* <<feed.entries>>. <<>>: the term raised; else <<items>>.
term_items(feed) ==
    IF feed = <<>> THEN <<>>
    ELSE LET head == first_entries(feed[1])
         IN  IF \E i \in DOMAIN head : entry_item(head[i]) = <<>> THEN <<>>
             ELSE <<[i \in DOMAIN head |-> entry_item(head[i])[1]]>>

\* The feed requested for a query: its search term is the query without .NS.
search_term(query) == RemoveAll(query, NS)

\* fetch_news(queries), queries in list order, feeds[search term] the outcome of
\* its request. Nothing in the loop is inside a try: the first term that raises
\* ends the call. raised_at is 0 when none does.
raised_at(queries, feeds) ==
    LET bad == {i \in DOMAIN queries : term_items(feeds[search_term(queries[i])]) = <<>>}
    IN  IF bad = {} THEN 0 ELSE CHOOSE i \in bad : \A j \in bad : i <= j

fetch_news(queries, feeds) ==
    IF raised_at(queries, feeds) # 0 THEN <<>>
    ELSE LET kept == {i \in DOMAIN queries :
                          term_items(feeds[search_term(queries[i])])[1] # <<>>}
         IN  <<[q \in {queries[i] : i \in kept} |-> term_items(feeds[search_term(q)])[1]]>>

ErrorPrefix == "Error generating analysis: "

\* A report is <<prefix, text>>. The service's outcome is [raised, text]: the
\* text it returned, or the message of the exception generate_content raised.

\* A variant without the try around generate_content: the failure propagates.
generate_analysis_unguarded(service) ==
    IF service.raised THEN <<>> ELSE <<<<"", service.text>>>>

\* generate_analysis(): <<>> when it raises, else <<the report>>.
generate_analysis(service) ==
    IF service.raised THEN <<<<ErrorPrefix, service.text>>>>
    ELSE <<<<"", service.text>>>>

\* send_telegram_report(report): post is <<>> when requests.post raises (it is
\* not inside a try), else <<status_code>>.
send_telegram_report(post) ==
    IF post = <<>> THEN [raised |-> TRUE, logged |-> <<>>]
    ELSE IF post[1] # 200 THEN [raised |-> FALSE, logged |-> <<"Failed to send message">>]
    ELSE [raised |-> FALSE, logged |-> <<>>]

\* A variant without the try around requests.post.
send_error_alert_unguarded(post) ==
    IF post = <<>> THEN [raised |-> TRUE, logged |-> <<>>]
    ELSE [raised |-> FALSE, logged |-> <<>>]

\* send_error_alert(error_message): a raising requests.post is caught and printed.
send_error_alert(post) ==
    IF post = <<>> THEN [raised |-> FALSE, logged |-> <<"Failed to send error alert">>]
    ELSE [raised |-> FALSE, logged |-> <<>>]

\* A variant that skips Sunday only.
is_weekend_sunday_only(weekday) == weekday >= 6

\* today >= 5: Saturday (5) or Sunday (6).
is_weekend(weekday) == weekday >= 5

\* A variant of the try block in which a failed news stage is passed over.
after_stage_news_skipped(stage, ok) ==
    IF stage = "news" THEN "generate"
    ELSE IF ~ok THEN "except"
    ELSE CASE stage = "load" -> "fetch"
           [] stage = "fetch" -> "calc"
           [] stage = "calc" -> "news"
           [] stage = "generate" -> "send"
           [] stage = "send" -> "success"

\* The try block of run_briefing: the stages in order, and the except clause
\* for an exception out of any of them.
after_stage(stage, ok) ==
    IF ~ok THEN "except"
    ELSE CASE stage = "load" -> "fetch"
           [] stage = "fetch" -> "calc"
           [] stage = "calc" -> "news"
           [] stage = "news" -> "generate"
           [] stage = "generate" -> "send"
           [] stage = "send" -> "success"

\* ------------------------------------------------------ external inputs

Terminal == {"skip", "success", "failed"}

\* The orchestrator's state in the words of the design.
RunState ==
    CASE pc = "idle" -> "Idle"
      [] pc = "guard" -> "GuardCheck"
      [] pc = "skip" -> "Skip"
      [] pc = "success" -> "Success"
      [] pc = "failed" -> "Failed"
      [] OTHER -> "Running"

SymA == <<"A">>
SymB == <<"B">>

\* Contents of india_portfolio.csv.
CsvSamples ==
    { [columns |-> {"Symbol", "Quantity"},
       rows |-> <<[Symbol |-> SymA, Quantity |-> Num(10)]>>],
      [columns |-> {"Symbol", "Quantity"},
       rows |-> <<[Symbol |-> SymA \o NS, Quantity |-> Num(10)],
                  [Symbol |-> SymB, Quantity |-> Num(1)]>>],
      [columns |-> {"Symbol"},
       rows |-> <<[Symbol |-> SymA, Quantity |-> NaN]>>] }

\* Close columns of one ticker in a download.
CloseSamples ==
    { <<NaN, Num(100), NaN, Num(110)>> }

\* What yf.download(...)['Close'] can be for a table: it raised, or a column
\* (or none) per ticker.
Downloads(table) ==
    LET tickers == {all_tickers(table)[i] : i \in DOMAIN all_tickers(table)}
    IN  {<<>>} \cup {<<cd>> : cd \in [tickers -> {<<>>} \cup {<<c>> : c \in CloseSamples}]}

Entry(i) == [title |-> <<i>>, link |-> <<i>>]
Untitled == [title |-> <<>>, link |-> <<1>>]

\* What feedparser.parse(url) can give: it raised, or feed.entries.
FeedSamples ==
    { <<>>, <<<<>>>>, <<<<Entry(1), Entry(2), Untitled>>>>, <<<<Entry(1), Untitled>>>> }

ServiceSamples ==
    { [raised |-> FALSE, text |-> "India Market Pulse"],
      [raised |-> TRUE, text |-> "service unavailable"] }

\* What requests.post can give: it raised, or a status code.
PostSamples == {<<>>, <<200>>, <<400>>}

\* list(set(...)): the queries in any order.
Orders(S) ==
    {q \in [1..Cardinality(S) -> S] : \A i, j \in 1..Cardinality(S) : q[i] = q[j] => i = j}

Call(api, ok) == [api |-> api, ok |-> ok]

\* ------------------------------------------------ run_briefing, __main__

InitBriefing ==
    /\ mode \in {"single", "daemon"}
    /\ proc = "main"
    /\ exitStatus = <<>>
    /\ pc = "idle"
    /\ today = <<>>
    /\ df = <<>> /\ quotes = <<>> /\ perf = <<>> /\ news = <<>> /\ report = <<>>
    /\ raised = <<>>
    /\ calls = <<>> /\ stages = <<>> /\ alerts = <<>> /\ posted = <<>> /\ logged = <<>>

InitTickerIdle ==
    /\ series = <<>>
    /\ quote = <<>>

\* A call of run_briefing(): nothing is carried over from an earlier run.
call_run_briefing ==
    /\ proc' = "run"
    /\ pc' = "guard"
    /\ today' = <<>>
    /\ df' = <<>> /\ quotes' = <<>> /\ perf' = <<>> /\ news' = <<>> /\ report' = <<>>
    /\ raised' = <<>>
    /\ calls' = <<>> /\ stages' = <<>> /\ alerts' = <<>> /\ posted' = <<>> /\ logged' = <<>>

\* The run is over (return, or an exception out of it): its locals are gone.
drop_locals ==
    /\ df' = <<>> /\ quotes' = <<>> /\ perf' = <<>> /\ news' = <<>> /\ report' = <<>>

\* __main__ under GITHUB_ACTIONS == "true": one run.
SingleRun ==
    /\ proc = "main" /\ mode = "single"
    /\ call_run_briefing
    /\ UNCHANGED <<mode, exitStatus, cleanupVars, tickerVars>>

\* __main__ otherwise: schedule the job, enter the polling loop.
StartScheduler ==
    /\ proc = "main" /\ mode = "daemon"
    /\ proc' = "poll"
    /\ UNCHANGED <<mode, exitStatus, pc, today, df, quotes, perf, news, report, raised,
                   calls, stages, alerts, posted, logged, cleanupVars, tickerVars>>

\* One turn of the loop: run_pending() calls job() when it is due, then sleep.
Poll ==
    /\ proc = "poll"
    /\ \E due \in BOOLEAN :
         IF due
         THEN call_run_briefing /\ UNCHANGED <<mode, exitStatus>>
         ELSE UNCHANGED briefingVars
    /\ UNCHANGED <<cleanupVars, tickerVars>>

\* 1. the weekend guard
GuardCheck ==
    /\ proc = "run" /\ pc = "guard"
    /\ \E weekday \in 0..6 :
         /\ today' = <<weekday>>
         /\ pc' = IF is_weekend(weekday) THEN "skip" ELSE "load"
    /\ UNCHANGED <<mode, proc, exitStatus, df, quotes, perf, news, report, raised,
                   calls, stages, alerts, posted, logged, cleanupVars, tickerVars>>

\* 2. load_portfolio(); None raises "Failed to load portfolio CSV"
LoadPortfolio ==
    /\ proc = "run" /\ pc = "load"
    /\ \E file \in {<<>>} \cup {<<t>> : t \in CsvSamples} :
         LET r == load_portfolio(file)
         IN  /\ calls' = Append(calls, Call("read_csv", file # <<>>))
             /\ df' = r
             /\ pc' = after_stage("load", r # <<>>)
             /\ raised' = IF r = <<>>
                          THEN <<[stage |-> "load", msg |-> "Failed to load portfolio CSV"]>>
                          ELSE raised
    /\ stages' = Append(stages, "load")
    /\ UNCHANGED <<mode, proc, exitStatus, today, quotes, perf, news, report,
                   alerts, posted, logged, cleanupVars, tickerVars>>

\* 3. fetch_market_data(df)
FetchData ==
    /\ proc = "run" /\ pc = "fetch"
    /\ \E download \in Downloads(df[1]) :
         LET r == fetch_market_data(df[1], download)
         IN  /\ calls' = Append(calls, Call("yf.download", download # <<>>))
             /\ quotes' = r
             /\ pc' = after_stage("fetch", r # <<>>)
             /\ raised' = IF r = <<>>
                          THEN <<[stage |-> "fetch", msg |-> "download failed"]>>
                          ELSE raised
    /\ stages' = Append(stages, "fetch")
    /\ UNCHANGED <<mode, proc, exitStatus, today, df, perf, news, report,
                   alerts, posted, logged, cleanupVars, tickerVars>>

\* 4. calculate_performance(df, current_prices, percent_changes)
Calculate ==
    /\ proc = "run" /\ pc = "calc"
    /\ LET r == calculate_performance(df[1], quotes[1].current_prices,
                                      quotes[1].percent_changes)
       IN  /\ perf' = r
           /\ pc' = after_stage("calc", r # <<>>)
           /\ raised' = IF r = <<>>
                        THEN <<[stage |-> "calc", msg |-> "'Quantity'"]>>
                        ELSE raised
    /\ stages' = Append(stages, "calc")
    /\ UNCHANGED <<mode, proc, exitStatus, today, df, quotes, news, report,
                   calls, alerts, posted, logged, cleanupVars, tickerVars>>

\* 5., 6. index_data, search_queries, fetch_news(search_queries)
FetchNews ==
    /\ proc = "run" /\ pc = "news"
    /\ \E queries \in Orders(search_queries(perf[1])) :
       \E feeds \in [{search_term(queries[i]) : i \in DOMAIN queries} -> FeedSamples] :
         LET r == fetch_news(queries, feeds)
             at == raised_at(queries, feeds)
             asked == IF at = 0 THEN Len(queries) ELSE at
         IN  /\ calls' = calls \o [i \in 1..asked |->
                            Call("feedparser.parse", feeds[search_term(queries[i])] # <<>>)]
             /\ news' = r
             /\ pc' = after_stage("news", r # <<>>)
             /\ raised' = IF r = <<>>
                          THEN <<[stage |-> "news", msg |-> "feed error"]>>
                          ELSE raised
    /\ stages' = Append(stages, "news")
    /\ UNCHANGED <<mode, proc, exitStatus, today, df, quotes, perf, report,
                   alerts, posted, logged, cleanupVars, tickerVars>>

\* 7. generate_analysis(perf, index_data, news)
Generate ==
    /\ proc = "run" /\ pc = "generate"
    /\ \E service \in ServiceSamples :
         LET r == generate_analysis(service)
         IN  /\ calls' = Append(calls, Call("generate_content", ~service.raised))
             /\ report' = r
             /\ pc' = after_stage("generate", r # <<>>)
             /\ raised' = IF r = <<>>
                          THEN <<[stage |-> "generate", msg |-> service.text]>>
                          ELSE raised
    /\ stages' = Append(stages, "generate")
    /\ UNCHANGED <<mode, proc, exitStatus, today, df, quotes, perf, news,
                   alerts, posted, logged, cleanupVars, tickerVars>>

\* 8. send_telegram_report(report); the run ends in Success when it returns
Send ==
    /\ proc = "run" /\ pc = "send"
    /\ \E post \in PostSamples :
         LET r == send_telegram_report(post)
         IN  /\ calls' = Append(calls, Call("post_report", post = <<200>>))
             /\ posted' = Append(posted, report[1])
             /\ logged' = logged \o r.logged
             /\ pc' = after_stage("send", ~r.raised)
             /\ raised' = IF r.raised
                          THEN <<[stage |-> "send", msg |-> "connection error"]>>
                          ELSE raised
             /\ IF pc' \in Terminal THEN drop_locals
                ELSE UNCHANGED <<df, quotes, perf, news, report>>
    /\ stages' = Append(stages, "send")
    /\ UNCHANGED <<mode, proc, exitStatus, today, alerts, cleanupVars, tickerVars>>

\* except Exception as e: send_error_alert(str(e)); the run ends in Failed
\* unless the alert itself raises out of run_briefing.
HandleError ==
    /\ proc = "run" /\ pc = "except"
    /\ \E post \in PostSamples :
         LET r == send_error_alert(post)
         IN  /\ calls' = Append(calls, Call("post_alert", post # <<>>))
             /\ alerts' = Append(alerts, raised[1].msg)
             /\ logged' = logged \o r.logged
             /\ pc' = IF r.raised THEN "propagated" ELSE "failed"
             /\ proc' = IF r.raised THEN "crashed" ELSE proc
             /\ exitStatus' = IF r.raised THEN <<1>> ELSE exitStatus
    /\ drop_locals
    /\ UNCHANGED <<mode, today, raised, stages, posted, cleanupVars, tickerVars>>

\* run_briefing has returned: exit() in single-run mode, back to the loop
\* otherwise.
Return ==
    /\ proc = "run" /\ pc \in Terminal
    /\ proc' = IF mode = "single" THEN "exited" ELSE "poll"
    /\ exitStatus' = IF mode = "single" THEN <<0>> ELSE exitStatus
    /\ UNCHANGED <<mode, pc, today, df, quotes, perf, news, report, raised, calls,
                   stages, alerts, posted, logged, cleanupVars, tickerVars>>

NextBriefing ==
    \/ SingleRun
    \/ StartScheduler
    \/ Poll
    \/ GuardCheck
    \/ LoadPortfolio
    \/ FetchData
    \/ Calculate
    \/ FetchNews
    \/ Generate
    \/ Send
    \/ HandleError
    \/ Return

Init == InitBriefing /\ InitCleanupIdle /\ InitTickerIdle
Next == NextBriefing
Spec == Init /\ [][Next]_vars

\* ------------------------------------------- the cleanup, run on its own

InitBriefingIdle ==
    /\ mode = "single"
    /\ proc = "main"
    /\ exitStatus = <<>>
    /\ pc = "idle"
    /\ today = <<>>
    /\ df = <<>> /\ quotes = <<>> /\ perf = <<>> /\ news = <<>> /\ report = <<>>
    /\ raised = <<>>
    /\ calls = <<>> /\ stages = <<>> /\ alerts = <<>> /\ posted = <<>> /\ logged = <<>>

InitCleanupSpec == InitBriefingIdle /\ InitCleanup /\ InitTickerIdle
NextCleanup == fix_portfolio
SpecCleanup == InitCleanupSpec /\ [][NextCleanup]_vars

\* ----------------------------- one ticker of fetch_market_data, on its own

\* Values of a Close column: a missing observation or a positive price.
Obs == {NaN} \cup {Num(p) : p \in (1..MaxPrice) \cup {100, 110}}

\* The ticker's column: any short series, or none (the lookup raises).
InitTicker ==
    /\ series \in {<<>>} \cup {<<s>> : s \in SeqsUpTo(Obs, MaxLen)}
    /\ quote = <<>>

\* One pass of the loop over all_tickers.
ProcessTicker ==
    /\ quote = <<>>
    /\ quote' = <<ticker_quote([t \in {SymA} |-> series], SymA)>>
    /\ UNCHANGED <<series, briefingVars, cleanupVars>>

InitTickerSpec == InitBriefingIdle /\ InitCleanupIdle /\ InitTicker
NextTicker == ProcessTicker
SpecTicker == InitTickerSpec /\ [][NextTicker]_vars

\* --------------------------------- calculate_performance, on its own

Letters == <<"A", "B", "C", "D", "E", "F", "G", "H">>
PosSymbol(i) == <<Letters[i]>> \o NS

QtySamples == {Num(1), Num(10)}

\* Close columns of a position's ticker.
PerfCloseSamples ==
    { <<Num(100), Num(110)>>, <<Num(110), Num(100)>>, <<Num(100)>>, <<Num(2), Num(1)>> }

\* Portfolios of 1..MaxPos positions, as load_portfolio returns them.
PerfTables ==
    UNION { { [columns |-> {"Symbol", "Quantity"},
               rows |-> [i \in 1..n |-> [Symbol |-> PosSymbol(i), Quantity |-> q[i]]]]
              : q \in [1..n -> QtySamples] } : n \in 1..MaxPos }

\* The run stands before step 4 with a portfolio and the quotes fetched for it:
\* each position's column is a sample or absent, the indices' columns absent.
InitPerf ==
    /\ mode = "single"
    /\ proc = "run"
    /\ exitStatus = <<>>
    /\ pc = "calc"
    /\ today = <<0>>
    /\ df \in {<<t>> : t \in PerfTables}
    /\ \E cols \in [1..Len(df[1].rows) -> {<<>>} \cup {<<c>> : c \in PerfCloseSamples}] :
         quotes = fetch_market_data(df[1],
                    <<[t \in {PosSymbol(i) : i \in 1..Len(df[1].rows)} \cup {NSEI, BSESN} |->
                         IF t \in {NSEI, BSESN} THEN <<>>
                         ELSE cols[CHOOSE i \in 1..Len(df[1].rows) : PosSymbol(i) = t]]>>)
    /\ perf = <<>> /\ news = <<>> /\ report = <<>>
    /\ raised = <<>>
    /\ calls = <<Call("read_csv", TRUE), Call("yf.download", TRUE)>>
    /\ stages = <<"load", "fetch">>
    /\ alerts = <<>> /\ posted = <<>> /\ logged = <<>>

InitPerfSpec == InitPerf /\ InitCleanupIdle /\ InitTickerIdle
NextPerf == Calculate
SpecPerf == InitPerfSpec /\ [][NextPerf]_vars

\* --------------------------------- the top-movers tables, on their own

\* Positions of the largest portfolio ranked.
MaxRank == 5

\* Close columns of a ranked position: changes of 10, 0 and -50 percent.
RankCloseSamples == { <<Num(100), Num(110)>>, <<Num(100)>>, <<Num(2), Num(1)>> }

\* Portfolios of 1..MaxRank positions of one share each.
RankTables ==
    { [columns |-> {"Symbol", "Quantity"},
       rows |-> [i \in 1..n |-> [Symbol |-> PosSymbol(i), Quantity |-> Num(1)]]]
      : n \in 1..MaxRank }

\* The run stands before step 4: each position's column is a sample or absent
\* (a zero quote), so that positions tie on their percent change.
InitRank ==
    /\ mode = "single"
    /\ proc = "run"
    /\ exitStatus = <<>>
    /\ pc = "calc"
    /\ today = <<0>>
    /\ df \in {<<t>> : t \in RankTables}
    /\ \E cols \in [1..Len(df[1].rows) -> {<<>>} \cup {<<c>> : c \in RankCloseSamples}] :
         quotes = fetch_market_data(df[1],
                    <<[t \in {PosSymbol(i) : i \in 1..Len(df[1].rows)} \cup {NSEI, BSESN} |->
                         IF t \in {NSEI, BSESN} THEN <<>>
                         ELSE cols[CHOOSE i \in 1..Len(df[1].rows) : PosSymbol(i) = t]]>>)
    /\ perf = <<>> /\ news = <<>> /\ report = <<>>
    /\ raised = <<>>
    /\ calls = <<Call("read_csv", TRUE), Call("yf.download", TRUE)>>
    /\ stages = <<"load", "fetch">>
    /\ alerts = <<>> /\ posted = <<>> /\ logged = <<>>

InitRankSpec == InitRank /\ InitCleanupIdle /\ InitTickerIdle
NextRank == Calculate
SpecRank == InitRankSpec /\ [][NextRank]_vars

\* ================================================================ claims

Range(s) == {s[i] : i \in DOMAIN s}

StageOrder == <<"load", "fetch", "calc", "news", "generate", "send">>

Saturday == 5
Sunday == 6

\* C1. A run that starts on a Saturday or Sunday ends in Skip and has made no
\* external call: no portfolio load, no price, news, generative-model or chat
\* request, and no alert.
C1_WeekendSkipsWithoutCalls ==
    (today # <<>> /\ today[1] \in {Saturday, Sunday}) =>
        /\ pc = "skip" /\ RunState = "Skip"
        /\ calls = <<>> /\ stages = <<>>
        /\ alerts = <<>> /\ posted = <<>> /\ raised = <<>>
        /\ df = <<>> /\ quotes = <<>> /\ perf = <<>> /\ news = <<>> /\ report = <<>>

\* A Saturday run of the daemon has ended in Skip and the loop polls again.
C1_Witness ==
    /\ today = <<Saturday>> /\ pc = "skip" /\ proc = "poll" /\ calls = <<>>

\* C2. An exception out of a stage of the try block moves the run to Failed:
\* the except clause is entered at once, its message is passed to
\* send_error_alert exactly once, the raising stage is the last stage of the
\* run, and the stages ran once each in order (none retried or resumed).
C2_ExceptionFailsRun ==
    /\ stages = SubSeq(StageOrder, 1, Len(stages))
    /\ raised = <<>> => (alerts = <<>> /\ pc \notin {"except", "failed"})
    /\ raised # <<>> =>
        /\ pc \in {"except", "failed"}
        /\ stages # <<>> /\ stages[Len(stages)] = raised[1].stage
        /\ pc = "except" => alerts = <<>>
        /\ pc = "failed" =>
              /\ RunState = "Failed"
              /\ alerts = <<raised[1].msg>>
              /\ Cardinality({i \in DOMAIN calls : calls[i].api = "post_alert"}) = 1

\* The news stage raised; generation and delivery never ran; one alert went out.
C2_Witness ==
    /\ pc = "failed"
    /\ raised = <<[stage |-> "news", msg |-> "feed error"]>>
    /\ stages = <<"load", "fetch", "calc", "news">>
    /\ alerts = <<"feed error">>

\* How far a run has come.
Rank(p) ==
    CASE p = "guard" -> 1
      [] p = "load" -> 2
      [] p = "fetch" -> 3
      [] p = "calc" -> 4
      [] p = "news" -> 5
      [] p = "generate" -> 6
      [] p = "send" -> 7
      [] p = "except" -> 8
      [] p \in Terminal -> 9
      [] OTHER -> 0

\* C3. Every run ends in Skip, Success or Failed and returns to its caller
\* without an exception, a failed alert delivery included: single-run mode
\* exits with status 0 and the daemon loop goes on polling. A run in progress
\* stands at a step it can take, every step takes it nearer to a terminal
\* state, and from a terminal state it returns.
C3_RunReturnsToCaller ==
    /\ [](/\ proc \in {"main", "run", "poll", "exited"}
          /\ proc = "exited" => (mode = "single" /\ exitStatus = <<0>> /\ pc \in Terminal)
          /\ proc # "exited" => exitStatus = <<>>
          /\ proc = "poll" => (mode = "daemon" /\ pc \in Terminal \cup {"idle"})
          /\ proc = "run" =>
                /\ Rank(pc) >= 1
                /\ pc \in {"fetch", "calc"} => df # <<>>
                /\ pc = "calc" => quotes # <<>>
                /\ pc = "news" => perf # <<>>
                /\ pc = "send" => report # <<>>
                /\ pc = "except" => raised # <<>>)
    /\ [][/\ (proc = "run" /\ proc' = "run") => Rank(pc') > Rank(pc)
          /\ (proc = "run" /\ proc' # "run") =>
                /\ pc \in Terminal /\ pc' = pc
                /\ proc' = (IF mode = "single" THEN "exited" ELSE "poll")]_vars

\* Single-run mode has exited after a failed run whose alert could not be sent.
C3_Witness ==
    /\ proc = "exited" /\ exitStatus = <<0>> /\ pc = "failed"
    /\ "Failed to send error alert" \in Range(logged)

\* Where the download returns, a ticker whose column lookup raises gets the
\* zero-default quote and every other ticker its computed quote.
PerTickerIsolation ==
    quotes # <<>> =>
        \A t \in DOMAIN quotes[1].current_prices :
            /\ quotes[1].current_prices[t] \in {Num(0), Num(110)}
            /\ quotes[1].percent_changes[t] =
                   IF quotes[1].current_prices[t] = Num(0) THEN Num(0) ELSE Num(10)

\* A snapshot computed from zero-default quotes alone is all zero.
ZeroSnapshot ==
    (perf # <<>> /\ \A t \in DOMAIN quotes[1].current_prices :
                        quotes[1].current_prices[t] = Num(0)) =>
        /\ perf[1].total_value = Num(0)
        /\ perf[1].total_daily_pnl = Num(0)

\* C4. A fetch or parsing failure for any of the requested tickers never
\* aborts fetch_market_data (no exception of the quote stage reaches
\* run_briefing); a failed ticker gets the zero-default quote, every other
\* ticker its computed quote, and the snapshot is all zero when all failed.
C4_FetchFailureNeverAborts ==
    /\ (\E i \in DOMAIN calls : calls[i] = Call("yf.download", FALSE)) =>
          (raised = <<>> \/ raised[1].stage # "fetch")
    /\ PerTickerIsolation
    /\ ZeroSnapshot

\* C5. When the generative-text service fails inside generate_analysis, the
\* report is the placeholder error string, no exception of the generate stage
\* reaches run_briefing, and the run goes on to send_telegram_report with that
\* text; an alert in such a run is never about the generation failure.
C5_GenerationFailureStillDelivers ==
    (\E i \in DOMAIN calls : calls[i] = Call("generate_content", FALSE)) =>
        /\ pc \in {"send", "success", "except", "failed"}
        /\ pc = "send" =>
              /\ report = <<<<ErrorPrefix, "service unavailable">>>>
              /\ raised = <<>> /\ alerts = <<>>
        /\ pc # "send" => posted = <<<<ErrorPrefix, "service unavailable">>>>
        /\ raised # <<>> => raised[1].stage = "send"
        /\ pc = "success" => alerts = <<>>

\* The service failed, the placeholder was posted, the run ended in Success.
C5_Witness ==
    /\ pc = "success"
    /\ \E i \in DOMAIN calls : calls[i] = Call("generate_content", FALSE)
    /\ posted = <<<<ErrorPrefix, "service unavailable">>>>
    /\ alerts = <<>>

\* What does hold: a response with a status other than 200 is only logged.
Non200OnlyLogged ==
    "Failed to send message" \in Range(logged) =>
        (raised = <<>> /\ alerts = <<>> /\ pc = "success" /\ Len(posted) = 1)

\* C6. The report is posted at most once per run, and a failed delivery (a
\* non-2xx response or a failed request) is only logged: it never raises, never
\* moves the run to Failed and never triggers an alert.
C6_DeliveryFailureOnlyLogged ==
    /\ Len(posted) <= 1
    /\ Non200OnlyLogged
    /\ (\E i \in DOMAIN calls : calls[i] = Call("post_report", FALSE)) =>
          /\ raised = <<>> /\ alerts = <<>>
          /\ pc \notin {"except", "failed"}

\* What does hold: a digest, when fetch_news returns one, has at most
\* NewsPerTerm items per term, the first entries of the feed in feed order,
\* and no entry for a term whose feed came back empty.
DigestShape ==
    news # <<>> =>
        \A q \in DOMAIN news[1] :
            news[1][q] = <<[title |-> 1, link |-> 1], [title |-> 2, link |-> 2]>>

\* C7. A network or parse failure while handling one term never makes
\* fetch_news raise (no exception of the news stage reaches run_briefing); the
\* term is left out and every other term keeps its first items in feed order.
C7_NewsFailureNeverRaises ==
    /\ raised = <<>> \/ raised[1].stage # "news"
    /\ DigestShape

\* x is a code without dots, bare or followed by one .NS suffix.
IsPlainSymbol(x) ==
    LET base == IF EndsWith(x, NS) THEN SubSeq(x, 1, Len(x) - Len(NS)) ELSE x
    IN  "." \notin Range(base)

Present(col) == {i \in DOMAIN col : col[i] # NaN}
MaxOf(S) == CHOOSE i \in S : \A j \in S : j <= i

\* C9. A ticker's quote comes from its non-missing observations only: with two
\* or more, the price is the last and the change is
\* (last - secondLast) / secondLast * 100 wherever the missing values sit; with
\* one, the price is it and the change is 0; with none, both are 0.
C9_QuoteFromLastTwoPresent ==
    (quote # <<>> /\ series # <<>>) =>
        LET col == series[1]
            P == Present(col)
            j == MaxOf(P)
            i == MaxOf(P \ {j})
        IN  /\ Cardinality(P) >= 2 =>
                  /\ quote[1].price = col[j]
                  /\ quote[1].change[2] > 0
                  /\ quote[1].change[1] * col[i][1]
                         = quote[1].change[2] * (col[j][1] - col[i][1]) * 100
            /\ Cardinality(P) = 1 =>
                  (quote[1].price = col[j] /\ quote[1].change = Num(0))
            /\ Cardinality(P) = 0 =>
                  (quote[1].price = Num(0) /\ quote[1].change = Num(0))
            /\ col = <<NaN, Num(100), NaN, Num(110)>> =>
                  (quote[1].price = Num(110) /\ quote[1].change = Num(10))

\* The series [NaN, 100, NaN, 110] was processed: price 110, change 10%.
C9_Witness ==
    /\ series = <<<<NaN, Num(100), NaN, Num(110)>>>>
    /\ quote = <<[price |-> Num(110), change |-> Num(10)]>>

RECURSIVE SumTo(_, _)
SumTo(f, n) == IF n = 0 THEN Num(0) ELSE RAdd(SumTo(f, n - 1), f[n])

\* C10. For every position whose percent change is not -100, CurrentValue is
\* Quantity * CurrentPrice and DailyPnL is
\* CurrentValue - CurrentValue / (1 + ChangePct/100), that is
\* DailyPnL * (100 + ChangePct) = CurrentValue * ChangePct, and 0 when the
\* change is 0; the totals are the sums over the positions; quantity 10 at
\* price 110 after a 10% rise gives value 1100 and P&L 100.
C10_ValueAndDailyPnL ==
    perf # <<>> =>
        LET full == perf[1].full_df
            rows == df[1].rows
        IN  /\ Len(full) = Len(rows)
            /\ \A i \in DOMAIN full :
                 LET price == quotes[1].current_prices[rows[i].Symbol]
                     pct == quotes[1].percent_changes[rows[i].Symbol]
                     qty == rows[i].Quantity
                     value == full[i].CurrentValue
                     pnl == full[i].DailyPnL
                 IN  pct # Num(-100) =>
                       /\ value[2] > 0 /\ pnl[2] > 0
                       /\ value[1] * qty[2] * price[2] = qty[1] * price[1] * value[2]
                       /\ pnl[1] * (100 * pct[2] + pct[1]) * value[2]
                              = value[1] * pct[1] * pnl[2]
                       /\ pct = Num(0) => pnl = Num(0)
                       /\ (qty = Num(10) /\ price = Num(110) /\ pct = Num(10)) =>
                              (value = Num(1100) /\ pnl = Num(100))
            /\ perf[1].total_value = SumTo([i \in DOMAIN full |-> full[i].CurrentValue], Len(full))
            /\ perf[1].total_daily_pnl = SumTo([i \in DOMAIN full |-> full[i].DailyPnL], Len(full))

\* One position, quantity 10, series [100, 110]: value 1100, P&L 100, and the
\* same totals.
C10_Witness ==
    /\ perf # <<>>
    /\ df[1].rows = <<[Symbol |-> PosSymbol(1), Quantity |-> Num(10)]>>
    /\ quotes[1].current_prices[PosSymbol(1)] = Num(110)
    /\ quotes[1].percent_changes[PosSymbol(1)] = Num(10)
    /\ perf[1].full_df[1].CurrentValue = Num(1100)
    /\ perf[1].full_df[1].DailyPnL = Num(100)
    /\ perf[1].total_value = Num(1100)
    /\ perf[1].total_daily_pnl = Num(100)

\* The place of row i in a stable sort of the rows by ChangePct descending:
\* one more than the rows that are larger, or equal and earlier in the input.
GainerRank(rows, i) ==
    1 + Cardinality({j \in DOMAIN rows :
            \/ RLess(rows[i].ChangePct, rows[j].ChangePct)
            \/ rows[j].ChangePct = rows[i].ChangePct /\ j < i})

\* The same for a stable sort ascending.
LoserRank(rows, i) ==
    1 + Cardinality({j \in DOMAIN rows :
            \/ RLess(rows[j].ChangePct, rows[i].ChangePct)
            \/ rows[j].ChangePct = rows[i].ChangePct /\ j < i})

\* C11. For every portfolio of N positions, top_gainers and top_losers each
\* have exactly min(3, N) rows; row k of top_gainers is the row at place k of
\* the stable sort of the positions by ChangePct descending, row k of
\* top_losers the row at place k of the stable sort ascending (so the tables
\* are ordered, and positions with equal ChangePct are selected and ordered by
\* their input order).
C11_TopMoversStableTruncated ==
    perf # <<>> =>
        LET full == perf[1].full_df
            N == Len(full)
            K == IF N < 3 THEN N ELSE 3
            gainers == perf[1].top_gainers
            losers == perf[1].top_losers
        IN  /\ Len(gainers) = K
            /\ Len(losers) = K
            /\ \A k \in 1..K :
                 /\ \E i \in 1..N : /\ GainerRank(full, i) = k
                                    /\ gainers[k] = mover(full[i])
                 /\ \E i \in 1..N : /\ LoserRank(full, i) = k
                                    /\ losers[k] = mover(full[i])
            /\ \A k \in 1..(K - 1) :
                 /\ ~RLess(gainers[k].ChangePct, gainers[k + 1].ChangePct)
                 /\ ~RLess(losers[k + 1].ChangePct, losers[k].ChangePct)

\* Five positions changing by 0, 10, 0, 0, 0 percent: the gainers are the
\* second, first and third position, the losers the first, third and fourth;
\* the tie at 0 is cut after the earliest positions.
C11_Witness ==
    /\ perf # <<>>
    /\ Len(perf[1].full_df) = 5
    /\ \A i \in 1..5 :
         perf[1].full_df[i].ChangePct = IF i = 2 THEN Num(10) ELSE Num(0)
    /\ [k \in 1..3 |-> perf[1].top_gainers[k].Symbol]
           = <<PosSymbol(2), PosSymbol(1), PosSymbol(3)>>
    /\ [k \in 1..3 |-> perf[1].top_losers[k].Symbol]
           = <<PosSymbol(1), PosSymbol(3), PosSymbol(4)>>

====
